---- MODULE Spec2Model ----
(***************************************************************************)
(* The training / evaluation loop of EVA4/eva4tensorboardtrainer.py:       *)
(* Train.run, Test.run and ModelTrainer.run, one action per statement      *)
(* that calls a collaborator (run-manager, model, loss function,           *)
(* optimizer, scheduler, progress bar).  The collaborators are external:   *)
(* every call either returns or raises, and `calls` is the sequence of     *)
(* calls that returned.                                                    *)
(***************************************************************************)
EXTENDS Integers, Sequences, FiniteSets, TLC

\* ---------------------------------------------------------------- bounds
MaxEpochs == 2
MaxTrainBatches == 2
MaxTestBatches == 2
MaxLR == 2
PMax == 2

\* ------------------------------------------------------- input domains
SchedulerKinds == {"None", "ReduceLROnPlateau", "Other"}
L1Lambdas == {0 - 1, 0, 1}
InitialParams == <<1, 0 - PMax>>

VARIABLES
  epochs,           \* ModelTrainer.run argument `epochs`
  nTrain,           \* number of batches the train loader yields
  nTest,            \* number of batches the test loader yields
  scheduler,        \* ModelTrainer.scheduler (its kind, "None" for None)
  batch_scheduler,  \* ModelTrainer.batch_scheduler
  L1lambda,         \* Train.L1lambda
  pc,               \* the statement to execute next
  epoch,            \* loop variable of ModelTrainer.run (0 before the loop)
  batch,            \* batches drawn so far from the loader being iterated
  calls,            \* the collaborator calls that returned, in order
  params,           \* model parameters
  grad,             \* set of <<epoch, batch>> whose backward pass is in .grad
  optSteps,         \* optimizer's own state: number of updates applied
  lr,               \* optimizer.param_groups[0]['lr']
  last_lr,          \* scheduler.get_last_lr()[0]
  best,             \* ReduceLROnPlateau.best (0 - 1: none yet)
  mode,             \* model.training flag: "train" / "eval"
  y_pred,           \* local: output of the forward pass
  loss,             \* local: the loss tensor's value
  rm,               \* run-manager statistics of the current epoch
  raisedAt,         \* "none", or the statement that raised
  raisedLen         \* Len(calls) when the exception was raised

vars == <<epochs, nTrain, nTest, scheduler, batch_scheduler, L1lambda, pc,
          epoch, batch, calls, params, grad, optSteps, lr, last_lr, best,
          mode, y_pred, loss, rm, raisedAt, raisedLen>>

config == <<epochs, nTrain, nTest, scheduler, batch_scheduler, L1lambda>>
excState == <<raisedAt, raisedLen>>

\* ------------------------------------------------- external computations
Abs(x) == IF x < 0 THEN 0 - x ELSE x

Wrap(x) == ((x + PMax) % (2 * PMax + 1)) - PMax

\* self.model(data): a function of the parameters and the batch
Forward(p, data) == Wrap(p[1] * data + p[2])

Target(data) == data % 2

\* self.lossfn(y_pred, target)
LossFn(y, target) == (y - target) * (y - target)

\* sum over model.parameters() of torch.sum(param.abs())
RECURSIVE AbsSum(_)
AbsSum(p) == IF p = <<>> THEN 0 ELSE Abs(Head(p)) + AbsSum(Tail(p))

\* optimizer.step(): the update uses what is in .grad and the current lr
OptimizerUpdate(p, g, rate) ==
  [i \in DOMAIN p |-> Wrap(p[i] - rate * Cardinality(g) * i)]

\* scheduler.step() of a scheduler that is not ReduceLROnPlateau
OtherSchedule(rate) == IF rate > 1 THEN rate - 1 ELSE MaxLR

\* ReduceLROnPlateau.step(metric): reduce when the metric did not improve
PlateauLR(rate, b, metric) ==
  IF b >= 0 /\ metric >= b /\ rate > 1 THEN rate - 1 ELSE rate

PlateauBest(b, metric) == IF b < 0 \/ metric < b THEN metric ELSE b

\* ------------------------------------------------------- object wiring
\* ModelTrainer.__init__: the scheduler handed to Train
TrainScheduler == IF batch_scheduler THEN scheduler ELSE "None"

\* ModelTrainer.__init__: the scheduler handed to Test
TestScheduler == scheduler

Entry(op, arg) == [op |-> op, ep |-> epoch, arg |-> arg]

Call(op, arg) == calls' = Append(calls, Entry(op, arg))

NewStats == [train_loss |-> 0, train_n |-> 0, test_loss |-> 0, test_n |-> 0]

Init ==
  /\ epochs \in 0..MaxEpochs
  /\ nTrain \in 0..MaxTrainBatches
  /\ nTest \in 0..MaxTestBatches
  /\ scheduler \in SchedulerKinds
  /\ batch_scheduler \in BOOLEAN
  /\ L1lambda \in L1Lambdas
  /\ pc = "begin_run"
  /\ epoch = 0
  /\ batch = 0
  /\ calls = <<>>
  /\ params = InitialParams
  /\ grad = {}
  /\ optSteps = 0
  /\ lr = MaxLR
  /\ last_lr = MaxLR
  /\ best = 0 - 1
  /\ mode = "train"
  /\ y_pred = 0
  /\ loss = 0
  /\ rm = NewStats
  /\ raisedAt = "none"
  /\ raisedLen = 0

\* -------------------------------------------------- ModelTrainer.run
BeginRun ==
  /\ pc = "begin_run"
  /\ Call("begin_run", <<>>)
  /\ pc' = "epoch_loop"
  /\ UNCHANGED <<config, epoch, batch, params, grad, optSteps, lr, last_lr,
                 best, mode, y_pred, loss, rm, excState>>

\* mutant: the loop runs one epoch too many (range(0, epochs+1))
EpochHasNext_oneMore == epoch <= epochs

\* for epoch in range(1, epochs+1)
EpochHasNext == epoch < epochs

EpochLoop ==
  /\ pc = "epoch_loop"
  /\ IF EpochHasNext
       THEN epoch' = epoch + 1 /\ pc' = "begin_epoch"
       ELSE epoch' = epoch /\ pc' = "save"
  /\ UNCHANGED <<config, batch, calls, params, grad, optSteps, lr, last_lr,
                 best, mode, y_pred, loss, rm, excState>>

BeginEpoch ==
  /\ pc = "begin_epoch"
  /\ Call("begin_epoch", <<>>)
  /\ rm' = NewStats
  /\ pc' = "model_train"
  /\ UNCHANGED <<config, epoch, batch, params, grad, optSteps, lr, last_lr,
                 best, mode, y_pred, loss, excState>>

\* ------------------------------------------------------------ Train.run
ModelTrain ==
  /\ pc = "model_train"
  /\ mode' = "train"
  /\ batch' = 0
  /\ Call("model.train", <<>>)
  /\ pc' = "train_loop"
  /\ UNCHANGED <<config, epoch, params, grad, optSteps, lr, last_lr, best,
                 y_pred, loss, rm, excState>>

\* mutant: the loop stops before the loader's last batch
TrainLoaderHasNext_dropsLast == batch + 1 < nTrain

\* for data, target in pbar (the train loader)
TrainLoaderHasNext == batch < nTrain

TrainLoop ==
  /\ pc = "train_loop"
  /\ IF TrainLoaderHasNext
       THEN batch' = batch + 1 /\ pc' = "begin_batch"
       ELSE batch' = batch /\ pc' = "model_eval"
  /\ UNCHANGED <<config, epoch, calls, params, grad, optSteps, lr, last_lr,
                 best, mode, y_pred, loss, rm, excState>>

BeginBatch ==
  /\ pc = "begin_batch"
  /\ Call("begin_batch", <<>>)
  /\ pc' = "zero_grad"
  /\ UNCHANGED <<config, epoch, batch, params, grad, optSteps, lr, last_lr,
                 best, mode, y_pred, loss, rm, excState>>

\* mutant: zero_grad is ineffective, gradients of earlier batches stay
ZeroedGrad_keeps(g) == g

\* what optimizer.zero_grad() leaves in .grad
ZeroedGrad(g) == {}

ZeroGrad ==
  /\ pc = "zero_grad"
  /\ grad' = ZeroedGrad(grad)
  /\ Call("zero_grad", <<>>)
  /\ pc' = "forward"
  /\ UNCHANGED <<config, epoch, batch, params, optSteps, lr, last_lr, best,
                 mode, y_pred, loss, rm, excState>>

ForwardPass ==
  /\ pc = "forward"
  /\ y_pred' = Forward(params, batch)
  /\ Call("forward", <<>>)
  /\ pc' = "lossfn"
  /\ UNCHANGED <<config, epoch, batch, params, grad, optSteps, lr, last_lr,
                 best, mode, loss, rm, excState>>

\* mutant: the L1 term is added whatever the sign of L1lambda
L1Regularized_unguarded(base, lambda, p) == base + lambda * AbsSum(p)

\* lines 80-84: the L1 term is added only when L1lambda > 0
L1Regularized(base, lambda, p) ==
  IF lambda > 0 THEN base + lambda * AbsSum(p) ELSE base

ComputeLoss ==
  /\ pc = "lossfn"
  /\ loss' = L1Regularized(LossFn(y_pred, Target(batch)), L1lambda, params)
  /\ Call("lossfn", <<LossFn(y_pred, Target(batch))>>)
  /\ pc' = "backward"
  /\ UNCHANGED <<config, epoch, batch, params, grad, optSteps, lr, last_lr,
                 best, mode, y_pred, rm, excState>>

\* mutant: optimizer.step() is left out of the batch
Backward_withoutStep ==
  /\ pc = "backward"
  /\ grad' = grad \cup {<<epoch, batch>>}
  /\ Call("backward", <<loss>>)
  /\ pc' = "track_train_loss"
  /\ UNCHANGED <<config, epoch, batch, params, optSteps, lr, last_lr, best,
                 mode, y_pred, loss, rm, excState>>

Backward ==
  /\ pc = "backward"
  /\ grad' = grad \cup {<<epoch, batch>>}
  /\ Call("backward", <<loss>>)
  /\ pc' = "optimizer_step"
  /\ UNCHANGED <<config, epoch, batch, params, optSteps, lr, last_lr, best,
                 mode, y_pred, loss, rm, excState>>

\* the entry of optimizer.step records the lr it used and how many
\* batches' gradients it applied
OptimizerStep ==
  /\ pc = "optimizer_step"
  /\ params' = OptimizerUpdate(params, grad, lr)
  /\ optSteps' = optSteps + 1
  /\ Call("optimizer.step", <<lr, Cardinality(grad)>>)
  /\ pc' = "track_train_loss"
  /\ UNCHANGED <<config, epoch, batch, grad, lr, last_lr, best, mode,
                 y_pred, loss, rm, excState>>

TrackTrainLoss ==
  /\ pc = "track_train_loss"
  /\ rm' = [rm EXCEPT !.train_loss = @ + loss]
  /\ Call("track_train_loss", <<loss>>)
  /\ pc' = "track_train_num_correct"
  /\ UNCHANGED <<config, epoch, batch, params, grad, optSteps, lr, last_lr,
                 best, mode, y_pred, loss, excState>>

TrackTrainNumCorrect ==
  /\ pc = "track_train_num_correct"
  /\ rm' = [rm EXCEPT !.train_n = @ + 1]
  /\ Call("track_train_num_correct", <<>>)
  /\ pc' = "end_batch"
  /\ UNCHANGED <<config, epoch, batch, params, grad, optSteps, lr, last_lr,
                 best, mode, y_pred, loss, excState>>

\* lines 93-98: the lr that Train.run reports for the batch
BatchLR == IF TrainScheduler # "None" THEN last_lr ELSE lr

EndBatch ==
  /\ pc = "end_batch"
  /\ Call("end_batch", <<BatchLR>>)
  /\ pc' = IF TrainScheduler # "None" THEN "batch_scheduler_step"
                                      ELSE "train_loop"
  /\ UNCHANGED <<config, epoch, batch, params, grad, optSteps, lr, last_lr,
                 best, mode, y_pred, loss, rm, excState>>

\* lines 104-105: self.scheduler.step(), no metric
BatchSchedulerStep ==
  /\ pc = "batch_scheduler_step"
  /\ lr' = IF TrainScheduler = "Other" THEN OtherSchedule(lr) ELSE lr
  /\ last_lr' = lr'
  /\ Call("scheduler.step", <<>>)
  /\ pc' = "train_loop"
  /\ UNCHANGED <<config, epoch, batch, params, grad, optSteps, best, mode,
                 y_pred, loss, rm, excState>>

\* ------------------------------------------------------------- Test.run
ModelEval ==
  /\ pc = "model_eval"
  /\ mode' = "eval"
  /\ batch' = 0
  /\ Call("model.eval", <<>>)
  /\ pc' = "test_loop"
  /\ UNCHANGED <<config, epoch, params, grad, optSteps, lr, last_lr, best,
                 y_pred, loss, rm, excState>>

\* line 128
TestStepsPlateau == TestScheduler # "None" /\ TestScheduler = "ReduceLROnPlateau"

TestLoop ==
  /\ pc = "test_loop"
  /\ IF batch < nTest
       THEN batch' = batch + 1 /\ pc' = "test_forward"
       ELSE /\ batch' = batch
            /\ pc' = IF TestStepsPlateau THEN "pbar_write" ELSE "end_epoch"
  /\ UNCHANGED <<config, epoch, calls, params, grad, optSteps, lr, last_lr,
                 best, mode, y_pred, loss, rm, excState>>

TestForward ==
  /\ pc = "test_forward"
  /\ y_pred' = Forward(params, batch)
  /\ Call("forward", <<>>)
  /\ pc' = "test_lossfn"
  /\ UNCHANGED <<config, epoch, batch, params, grad, optSteps, lr, last_lr,
                 best, mode, loss, rm, excState>>

\* mutant: the evaluation loop backpropagates its loss
TestLoss_backward ==
  /\ pc = "test_lossfn"
  /\ loss' = LossFn(y_pred, Target(batch))
  /\ grad' = grad \cup {<<epoch, batch>>}
  /\ calls' = calls \o <<Entry("lossfn", <<LossFn(y_pred, Target(batch))>>),
                         Entry("backward", <<LossFn(y_pred, Target(batch))>>)>>
  /\ pc' = "track_test_loss"
  /\ UNCHANGED <<config, epoch, batch, params, optSteps, lr, last_lr, best,
                 mode, y_pred, rm, excState>>

TestLoss ==
  /\ pc = "test_lossfn"
  /\ loss' = LossFn(y_pred, Target(batch))
  /\ Call("lossfn", <<LossFn(y_pred, Target(batch))>>)
  /\ pc' = "track_test_loss"
  /\ UNCHANGED <<config, epoch, batch, params, grad, optSteps, lr, last_lr,
                 best, mode, y_pred, rm, excState>>

TrackTestLoss ==
  /\ pc = "track_test_loss"
  /\ rm' = [rm EXCEPT !.test_loss = @ + loss]
  /\ Call("track_test_loss", <<loss>>)
  /\ pc' = "track_test_num_correct"
  /\ UNCHANGED <<config, epoch, batch, params, grad, optSteps, lr, last_lr,
                 best, mode, y_pred, loss, excState>>

TrackTestNumCorrect ==
  /\ pc = "track_test_num_correct"
  /\ rm' = [rm EXCEPT !.test_n = @ + 1]
  /\ Call("track_test_num_correct", <<>>)
  /\ pc' = "test_loop"
  /\ UNCHANGED <<config, epoch, batch, params, grad, optSteps, lr, last_lr,
                 best, mode, y_pred, loss, excState>>

\* runmanager.get_test_loss()
GetTestLoss == rm.test_loss

\* line 129: pbar.write(..., self.runmanager.get_test_loss())
PbarWrite ==
  /\ pc = "pbar_write"
  /\ calls' = calls \o <<Entry("get_test_loss", <<GetTestLoss>>),
                         Entry("pbar.write", <<>>)>>
  /\ pc' = "plateau_step"
  /\ UNCHANGED <<config, epoch, batch, params, grad, optSteps, lr, last_lr,
                 best, mode, y_pred, loss, rm, excState>>

\* line 130: self.scheduler.step(self.runmanager.get_test_loss())
PlateauStep ==
  /\ pc = "plateau_step"
  /\ lr' = PlateauLR(lr, best, GetTestLoss)
  /\ last_lr' = lr'
  /\ best' = PlateauBest(best, GetTestLoss)
  /\ calls' = calls \o <<Entry("get_test_loss", <<GetTestLoss>>),
                         Entry("scheduler.step", <<GetTestLoss>>)>>
  /\ pc' = "end_epoch"
  /\ UNCHANGED <<config, epoch, batch, params, grad, optSteps, mode, y_pred,
                 loss, rm, excState>>

\* ------------------------------------------ ModelTrainer.run, continued
\* lines 154-155
EndEpoch ==
  /\ pc = "end_epoch"
  /\ Call("end_epoch", <<lr>>)
  /\ pc' = "savebest"
  /\ UNCHANGED <<config, epoch, batch, params, grad, optSteps, lr, last_lr,
                 best, mode, y_pred, loss, rm, excState>>

\* line 158
EpochStepsScheduler ==
  scheduler # "None" /\ ~batch_scheduler /\ scheduler # "ReduceLROnPlateau"

SaveBest ==
  /\ pc = "savebest"
  /\ Call("savebest", <<>>)
  /\ pc' = IF EpochStepsScheduler THEN "epoch_scheduler_step" ELSE "epoch_loop"
  /\ UNCHANGED <<config, epoch, batch, params, grad, optSteps, lr, last_lr,
                 best, mode, y_pred, loss, rm, excState>>

EpochSchedulerStep ==
  /\ pc = "epoch_scheduler_step"
  /\ lr' = OtherSchedule(lr)
  /\ last_lr' = lr'
  /\ Call("scheduler.step", <<>>)
  /\ pc' = "epoch_loop"
  /\ UNCHANGED <<config, epoch, batch, params, grad, optSteps, best, mode,
                 y_pred, loss, rm, excState>>

Save ==
  /\ pc = "save"
  /\ Call("save", <<>>)
  /\ pc' = "done"
  /\ UNCHANGED <<config, epoch, batch, params, grad, optSteps, lr, last_lr,
                 best, mode, y_pred, loss, rm, excState>>

\* ------------------------------------------------------------ exceptions
\* mutant: a try/finally around the batch still closes it with end_batch
Propagate_closesBatch(site) ==
  IF site \in {"zero_grad", "forward", "lossfn", "backward", "optimizer_step",
               "track_train_loss", "track_train_num_correct"}
    THEN "end_batch" ELSE "raised"

\* There is no try/except/finally in the file: an exception raised by the
\* statement at `site` leaves every enclosing loop and ModelTrainer.run.
Propagate(site) == "raised"

Raise ==
  /\ pc \notin {"done", "raised"}
  /\ raisedAt' = pc
  /\ raisedLen' = Len(calls)
  /\ pc' = Propagate(pc)
  /\ UNCHANGED <<config, epoch, batch, calls, params, grad, optSteps, lr,
                 last_lr, best, mode, y_pred, loss, rm>>

Next ==
  \/ BeginRun \/ EpochLoop \/ BeginEpoch
  \/ ModelTrain \/ TrainLoop \/ BeginBatch \/ ZeroGrad \/ ForwardPass
  \/ ComputeLoss \/ Backward \/ OptimizerStep \/ TrackTrainLoss
  \/ TrackTrainNumCorrect \/ EndBatch \/ BatchSchedulerStep
  \/ ModelEval \/ TestLoop \/ TestForward \/ TestLoss \/ TrackTestLoss
  \/ TrackTestNumCorrect \/ PbarWrite \/ PlateauStep
  \/ EndEpoch \/ SaveBest \/ EpochSchedulerStep \/ Save
  \/ Raise

Spec == Init /\ [][Next]_vars

\* ====================================================== the call log
Idx == 1..Len(calls)

OpIdx(op) == {i \in Idx : calls[i].op = op}

Count(op) == Cardinality(OpIdx(op))

OpAt(i) == IF i \in Idx THEN calls[i].op ELSE "-"

DriverOps ==
  {"begin_run", "begin_epoch", "model.train", "model.eval", "end_epoch",
   "savebest", "save"}

DriverSeq ==
  LET d == SelectSeq(calls, LAMBDA e : e.op \in DriverOps)
  IN  [i \in 1..Len(d) |-> d[i].op]

\* the last ModelTrainer.run-level call made before position i
RECURSIVE PhaseUpTo(_)
PhaseUpTo(i) ==
  IF i <= 0 THEN "-"
  ELSE IF calls[i].op \in DriverOps THEN calls[i].op ELSE PhaseUpTo(i - 1)

Phase(i) == PhaseUpTo(i - 1)

IsPrefix(s, t) == Len(s) <= Len(t) /\ \A i \in 1..Len(s) : s[i] = t[i]

RECURSIVE ExpectedEpochs(_)
ExpectedEpochs(n) ==
  IF n = 0 THEN <<>>
  ELSE ExpectedEpochs(n - 1) \o
       <<"begin_epoch", "model.train", "model.eval", "end_epoch", "savebest">>

ExpectedRun(n) == <<"begin_run">> \o ExpectedEpochs(n) \o <<"save">>

TrainOnlyOps ==
  {"begin_batch", "zero_grad", "backward", "optimizer.step",
   "track_train_loss", "track_train_num_correct", "end_batch"}

TestOnlyOps ==
  {"track_test_loss", "track_test_num_correct", "get_test_loss", "pbar.write"}

\* C1: ModelTrainer.run drives the run-manager as begin_run, then for each of
\* exactly `epochs` epochs begin_epoch, the whole Train.run, the whole
\* Test.run, end_epoch, savebest, and finally save once; the calls made so
\* far are always a prefix of that sequence, so no epoch begins before the
\* previous one has ended.
C1_RunOrder ==
  /\ IsPrefix(DriverSeq, ExpectedRun(epochs))
  /\ pc = "done" => DriverSeq = ExpectedRun(epochs)
  /\ \A i \in Idx :
       /\ calls[i].op \in TrainOnlyOps => Phase(i) = "model.train"
       /\ calls[i].op \in TestOnlyOps => Phase(i) = "model.eval"
       /\ calls[i].op \in {"forward", "lossfn"}
            => Phase(i) \in {"model.train", "model.eval"}
  /\ \A i \in OpIdx("begin_epoch") :
       calls[i].ep = Cardinality({j \in OpIdx("begin_epoch") : j <= i})

C1_Witness ==
  pc = "done" /\ epochs >= 2 /\ nTrain >= 1 /\ nTest >= 1

BatchSteps ==
  <<"begin_batch", "zero_grad", "forward", "lossfn", "backward",
    "optimizer.step", "track_train_loss", "track_train_num_correct",
    "end_batch">>

\* the position in BatchSteps of an operation of a training batch
StepNo(op) == CHOOSE k \in DOMAIN BatchSteps : BatchSteps[k] = op

\* C2: every training batch is begin_batch, zero_grad, forward, lossfn,
\* backward, optimizer.step, track_train_loss, track_train_num_correct,
\* end_batch, each once and in this order, followed by scheduler.step
\* exactly when Train was given a scheduler; a batch is closed before the
\* next one begins.
C2_BatchSequence ==
  /\ \A i \in OpIdx("begin_batch") :
       /\ \A k \in DOMAIN BatchSteps :
            i + k - 1 <= Len(calls) => calls[i + k - 1].op = BatchSteps[k]
       /\ i + Len(BatchSteps) <= Len(calls)
            => (calls[i + Len(BatchSteps)].op = "scheduler.step"
                  <=> TrainScheduler # "None")
       /\ pc = "done" => i + Len(BatchSteps) - 1 <= Len(calls)
  /\ \A j \in Idx :
       (\/ calls[j].op \in TrainOnlyOps
        \/ calls[j].op \in {"forward", "lossfn"} /\ Phase(j) = "model.train")
         => OpAt(j - StepNo(calls[j].op) + 1) = "begin_batch"

C2_Witness ==
  /\ Count("end_batch") >= 2
  /\ TrainScheduler # "None"
  /\ Count("scheduler.step") >= 2

\* C3 as stated: Train.run accumulates gradients, so once two or more
\* batches have been trained some optimizer.step applied the gradient
\* contributions of more than one batch.
C3_GradientAccumulation ==
  (pc = "done" /\ epochs * nTrain >= 2)
    => \E i \in OpIdx("optimizer.step") : calls[i].arg[2] > 1

\* C3 amended: Train.run does not accumulate gradients; zero_grad precedes
\* every backward pass, so every optimizer.step applies the gradient of
\* exactly one batch, the current one.
C3_NoAccumulation ==
  /\ pc = "optimizer_step" => grad = {<<epoch, batch>>}
  /\ \A i \in OpIdx("optimizer.step") : calls[i].arg[2] = 1

C3_Witness == Count("optimizer.step") >= 2 /\ pc = "done"

\* the loss the L1 option prescribes for a base loss and the parameters
PrescribedLoss(base) ==
  IF L1lambda > 0 THEN base + L1lambda * AbsSum(params) ELSE base

\* C4: with L1lambda > 0 the loss of a batch is lossfn(y_pred, target) +
\* L1lambda * sum |param|, otherwise it is exactly lossfn(y_pred, target);
\* the value backpropagated is the value passed to track_train_loss.
C4_L1Loss ==
  /\ pc = "backward"
       => /\ OpAt(Len(calls)) = "lossfn"
          /\ loss = PrescribedLoss(calls[Len(calls)].arg[1])
  /\ pc = "optimizer_step"
       => /\ OpAt(Len(calls)) = "backward" /\ OpAt(Len(calls) - 1) = "lossfn"
          /\ calls[Len(calls)].arg
               = <<PrescribedLoss(calls[Len(calls) - 1].arg[1])>>
  /\ \A i \in OpIdx("track_train_loss") :
       OpAt(i - 2) = "backward" /\ calls[i].arg = calls[i - 2].arg

C4_Witness ==
  /\ L1lambda > 0
  /\ \E i \in OpIdx("track_train_loss") :
       calls[i].arg[1] > calls[i - 3].arg[1]

C4_WitnessOff ==
  /\ L1lambda < 0
  /\ AbsSum(params) > 0
  /\ pc = "optimizer_step"

\* whether position i lies inside an open begin_batch/end_batch window
InBatchWindow(i) ==
  \E b \in OpIdx("begin_batch") :
    b < i /\ \A j \in (b + 1)..(i - 1) : calls[j].op # "end_batch"

\* C5: every batch is reported exactly once: N*B calls of each train
\* tracker, all inside an open batch window, and N*T calls of each test
\* tracker, all outside any batch window, after the epoch's training
\* batches and before the epoch's end_epoch.
C5_EveryBatchTrackedOnce ==
  /\ pc = "done"
       => /\ Count("track_train_loss") = epochs * nTrain
          /\ Count("track_train_num_correct") = epochs * nTrain
          /\ Count("track_test_loss") = epochs * nTest
          /\ Count("track_test_num_correct") = epochs * nTest
  /\ Count("track_train_loss") <= epochs * nTrain
  /\ Count("track_test_loss") <= epochs * nTest
  /\ \A i \in OpIdx("track_train_loss") \cup OpIdx("track_train_num_correct") :
       InBatchWindow(i)
  /\ \A i \in OpIdx("track_test_loss") \cup OpIdx("track_test_num_correct") :
       /\ ~InBatchWindow(i)
       /\ \A j \in Idx :
            calls[j].ep = calls[i].ep =>
              /\ calls[j].op \in {"begin_batch", "end_batch"} => j < i
              /\ calls[j].op = "end_epoch" => j > i

C5_Witness ==
  pc = "done" /\ epochs >= 2 /\ nTrain >= 2 /\ nTest >= 2

\* the call site of a scheduler.step, from the call made just before it
Site(i) ==
  CASE OpAt(i - 1) = "end_batch" -> "Train.run"
    [] OpAt(i - 1) = "get_test_loss" -> "Test.run"
    [] OpAt(i - 1) = "savebest" -> "ModelTrainer.run"
    [] OTHER -> "-"

\* C6: scheduling follows the configuration: no scheduler, no step; with
\* batch_scheduler one step per training batch after its end_batch (N*B in
\* a run); otherwise one step per epoch, after savebest for a scheduler
\* that is not ReduceLROnPlateau, and inside Test.run with the test loss
\* as argument for ReduceLROnPlateau.
C6_SchedulingFollowsConfig ==
  /\ scheduler = "None" => OpIdx("scheduler.step") = {}
  /\ (scheduler # "None" /\ batch_scheduler)
       => /\ \A i \in OpIdx("scheduler.step") : Site(i) = "Train.run"
          /\ pc = "done" => Count("scheduler.step") = epochs * nTrain
  /\ (scheduler = "Other" /\ ~batch_scheduler)
       => /\ \A i \in OpIdx("scheduler.step") : Site(i) = "ModelTrainer.run"
          /\ pc = "done" => Count("scheduler.step") = epochs
  /\ (scheduler = "ReduceLROnPlateau" /\ ~batch_scheduler)
       => /\ \A i \in OpIdx("scheduler.step") :
               /\ Site(i) = "Test.run"
               /\ calls[i].arg = calls[i - 1].arg
               /\ \A j \in Idx : calls[j].op = "track_test_loss"
                                   /\ calls[j].ep = calls[i].ep => j < i
          /\ pc = "done" => Count("scheduler.step") = epochs

\* C7: an exception raised by any statement leaves ModelTrainer.run: the
\* run is over and no call is made after it, so the end_batch, end_epoch,
\* savebest and save still pending are never made.
C7_ExceptionEndsRun ==
  raisedAt # "none" => pc = "raised" /\ Len(calls) = raisedLen

C7_Witness ==
  /\ raisedAt = "backward"
  /\ pc = "raised"
  /\ Count("begin_batch") = Count("end_batch") + 1
  /\ Count("end_epoch") < epochs

\* C8: for every scheduler and batch_scheduler setting, all the
\* scheduler.step calls of one epoch come from one call site.
C8_OneSchedulerSite ==
  \A i, j \in OpIdx("scheduler.step") :
    calls[i].ep = calls[j].ep => Site(i) = Site(j)

\* C9: the lr passed to end_batch is the lr of that batch's optimizer.step,
\* and the lr passed to end_epoch is the lr of that epoch's optimizer steps.
C9_ReportedLRIsUsedLR ==
  /\ \A i \in OpIdx("end_batch") :
       OpAt(i - 3) = "optimizer.step" /\ calls[i].arg[1] = calls[i - 3].arg[1]
  /\ \A i \in OpIdx("end_epoch") :
       \A j \in OpIdx("optimizer.step") :
         calls[j].ep = calls[i].ep => calls[j].arg[1] = calls[i].arg[1]

TestPCs ==
  {"model_eval", "test_loop", "test_forward", "test_lossfn",
   "track_test_loss", "track_test_num_correct", "pbar_write", "plateau_step"}

\* what a step taken inside Test.run may change
TestStepFrame ==
  pc \in TestPCs =>
    /\ params' = params
    /\ grad' = grad
    /\ optSteps' = optSteps
    /\ rm'.train_loss = rm.train_loss /\ rm'.train_n = rm.train_n
    /\ UNCHANGED <<config, epoch>>
    /\ (mode' = "eval" \/ pc' = "raised")
    /\ (scheduler # "ReduceLROnPlateau" => UNCHANGED <<lr, last_lr, best>>)
    /\ \A i \in (Len(calls) + 1)..Len(calls') :
         calls'[i].op \notin {"zero_grad", "backward", "optimizer.step"}

\* C10: a step of Test.run calls none of zero_grad, backward and
\* optimizer.step and leaves the parameters, the gradients, the optimizer's
\* update state, the run-manager's train statistics and the configuration
\* alone; the learning-rate schedule moves only for ReduceLROnPlateau.
C10_TestOnlyEvaluates == [][TestStepFrame]_vars

C10_Witness ==
  /\ pc = "end_epoch"
  /\ epoch >= 2
  /\ nTest >= 1
  /\ optSteps >= 1
  /\ scheduler = "ReduceLROnPlateau"
  /\ lr < MaxLR

====
